---- MODULE Spec2Model ----
(***************************************************************************)
(* A model of the chain engine of src/blockchain.py: the Blockchain class  *)
(* with its chain, its pool of open transactions and its peer set.         *)
(* Block, Transaction, Verification and Wallet are imported by the source  *)
(* and modelled from the specification.                                    *)
(***************************************************************************)
EXTENDS Integers, Sequences, FiniteSets, TLC

(* ------------------------------ bounds --------------------------------- *)

\* Most blocks a chain grown by mine_block / add_block holds.
MaxChain == 3
\* Most transactions the pool holds.
MaxPool == 2
\* Largest amount of a submitted transaction.
MaxAmount == 1
\* The digest is a string of DigestLen digits in base DigestBase
\* (abstracting the 64 hexadecimal digits of the real digest).
DigestBase == 2
DigestLen == 5

(* -------------------------- program constants -------------------------- *)

MINING_REWARD == 1
\* The literal difficulty of add_block (and of verify_chain).
FIXED_DIFFICULTY == 4
\* proof of the genesis block
GENESIS_PROOF == 100

Participants == {"A", "B"}
PublicKeys == {"", "A"}
Difficulties == {1, FIXED_DIFFICULTY}
NoDifficulty == -1

(* ----------------------------- ledger types ---------------------------- *)

Transaction(sender, recipient, amount, signature) ==
    [sender |-> sender, recipient |-> recipient, amount |-> amount,
     signature |-> signature]

Block(index, timestamp, transactions, proof, previous_hash) ==
    [index |-> index, timestamp |-> timestamp, transactions |-> transactions,
     proof |-> proof, previous_hash |-> previous_hash]

\* The signature the wallet of `sender` produces.
SignatureOf(sender) ==
    CASE sender = "A" -> "sigA"
      [] sender = "B" -> "sigB"
      [] OTHER -> ""

\* Wallet.verify_transaction: the signature is the sender's.
Wallet_verify_transaction(tx) == tx.signature = SignatureOf(tx.sender)

(* ------------------------------- digest -------------------------------- *)

RECURSIVE Pow(_, _)
Pow(b, e) == IF e = 0 THEN 1 ELSE b * Pow(b, e - 1)

\* A digest is a string of DigestLen digits; it is held as the number the
\* digits spell, most significant digit first.
DigestSpace == Pow(DigestBase, DigestLen)

\* The empty string, previous_hash of the genesis block.
EmptyHash == -1

\* digest[0:n] == "0" * n
starts_with_zeros(digest, n) ==
    /\ n <= DigestLen
    /\ digest \div Pow(DigestBase, DigestLen - n) = 0

\* Serialisation of the fields that are hashed.
NameCode(s) ==
    CASE s = "0" -> 1
      [] s = "A" -> 2
      [] s = "B" -> 3
      [] s = "sigA" -> 4
      [] s = "sigB" -> 5
      [] s = "bad" -> 6
      [] OTHER -> 0

TxCode(tx) ==
    ((NameCode(tx.sender) * 7 + NameCode(tx.recipient)) * 7 + tx.amount) * 7
        + NameCode(tx.signature) + 1

RECURSIVE TxsCode(_)
TxsCode(txs) ==
    IF Len(txs) = 0 THEN 0
    ELSE (TxsCode(SubSeq(txs, 1, Len(txs) - 1)) * 31 + TxCode(txs[Len(txs)]))
             % DigestSpace

\* The empty previous_hash serialises differently from any digest.
HashCode(h) == IF h = EmptyHash THEN DigestSpace ELSE h

hash_string(n) == n % DigestSpace

\* Verification.hash_block: digest of (index, transactions, proof,
\* previous_hash); the timestamp is not hashed.
hash_block(block) ==
    hash_string(block.index * 11 + TxsCode(block.transactions) * 5
                + block.proof * 13 + HashCode(block.previous_hash) * 17 + 1)

\* The weight of the proof in the guess that is hashed.
ProofStride == Pow(DigestBase, DigestLen - FIXED_DIFFICULTY)

\* Verification.valid_proof: the digest of (transactions, previous_hash,
\* proof) starts with `difficulty` zero characters.
valid_proof(proof, transactions, previous_hash, difficulty) ==
    LET guess_hash == hash_string(TxsCode(transactions) * 7
                                  + HashCode(previous_hash) * 5
                                  + proof * ProofStride)
    IN  starts_with_zeros(guess_hash, difficulty)

\* transactions[:-1]
AllButLast(s) == IF Len(s) = 0 THEN s ELSE SubSeq(s, 1, Len(s) - 1)

\* Verification.verify_chain
verify_chain(c) ==
    \A i \in 2..Len(c) :
        /\ c[i].previous_hash = hash_block(c[i - 1])
        /\ valid_proof(c[i].proof, AllButLast(c[i].transactions),
                       c[i].previous_hash, FIXED_DIFFICULTY)

(* -------------------------------- state -------------------------------- *)

VARIABLES
    chain,              \* self.__chain
    open_transactions,  \* self.__open_transactions
    nodes,              \* self.nodes
    difficulty,         \* self.difficulty
    public_key,         \* self.public_key
    lastOp,             \* the operation that ran last
    ret,                \* what it returned or raised
    sent,               \* the peers it posted to, with the kind of payload
    mining              \* the locals of a mine_block call in progress

vars == <<chain, open_transactions, nodes, difficulty, public_key,
          lastOp, ret, sent, mining>>

\* What a call hands back: the value it returns, or the exception it raises.
\* The field names the type of the value.
Returned(type, value) == [t \in {type} |-> value]
Raised(exception) == [raise |-> exception]
\* Python's None
None == [none |-> TRUE]

genesis_block == Block(0, 0, <<>>, GENESIS_PROOF, EmptyHash)

\* No mine_block call is in progress.
NotMining == [active |-> FALSE, previous_hash |-> EmptyHash, proof |-> 0]

last_block == chain[Len(chain)]

next_index == Len(chain)

RECURSIVE SumSeq(_)
SumSeq(s) == IF Len(s) = 0 THEN 0 ELSE s[1] + SumSeq(Tail(s))

\* [tx.amount for tx in txs if tx.sender == participant]
RECURSIVE SentAmounts(_, _)
SentAmounts(txs, participant) ==
    IF Len(txs) = 0 THEN <<>>
    ELSE (IF txs[1].sender = participant THEN <<txs[1].amount>> ELSE <<>>)
             \o SentAmounts(Tail(txs), participant)

RECURSIVE ReceivedAmounts(_, _)
ReceivedAmounts(txs, participant) ==
    IF Len(txs) = 0 THEN <<>>
    ELSE (IF txs[1].recipient = participant THEN <<txs[1].amount>> ELSE <<>>)
             \o ReceivedAmounts(Tail(txs), participant)

\* reduce(lambda tx_sum, tx_amt: tx_sum + sum(tx_amt) ..., lists, 0)
RECURSIVE ReduceSum(_)
ReduceSum(lists) ==
    IF Len(lists) = 0 THEN 0
    ELSE ReduceSum(SubSeq(lists, 1, Len(lists) - 1))
             + (IF Len(lists[Len(lists)]) > 0 THEN SumSeq(lists[Len(lists)])
                ELSE 0)

\* get_balance returns None: no sender given and the node has no key.
get_balance_none(sender) == sender = "" /\ public_key = ""

\* Pending income is counted: the pool is scanned for received amounts too.
BalanceIn_counts_pending_income(c, pool, participant) ==
    LET tx_sender == [i \in 1..Len(c) |->
                         SentAmounts(c[i].transactions, participant)]
        open_tx_sender == SentAmounts(pool, participant)
        amount_sent == ReduceSum(Append(tx_sender, open_tx_sender))
        tx_recipient == [i \in 1..Len(c) |->
                            ReceivedAmounts(c[i].transactions, participant)]
        amount_received ==
            ReduceSum(Append(tx_recipient, ReceivedAmounts(pool, participant)))
    IN  amount_received - amount_sent

BalanceIn(c, pool, participant) ==
    LET tx_sender == [i \in 1..Len(c) |->
                         SentAmounts(c[i].transactions, participant)]
        open_tx_sender == SentAmounts(pool, participant)
        amount_sent == ReduceSum(Append(tx_sender, open_tx_sender))
        tx_recipient == [i \in 1..Len(c) |->
                            ReceivedAmounts(c[i].transactions, participant)]
        amount_received == ReduceSum(tx_recipient)
    IN  amount_received - amount_sent

get_balance(sender) ==
    LET participant == IF sender = "" THEN public_key ELSE sender
    IN  BalanceIn(chain, open_transactions, participant)

\* Verification.verify_transaction(transaction, get_balance)
verify_transaction(tx) == get_balance(tx.sender) >= tx.amount

Init ==
    /\ chain = <<genesis_block>>
    /\ open_transactions = <<>>
    /\ nodes = {}
    /\ difficulty = FIXED_DIFFICULTY
    /\ public_key \in PublicKeys
    /\ lastOp = "init"
    /\ ret = None
    /\ sent = {}
    /\ mining = NotMining

(* ------------------------------ operations ----------------------------- *)

Broadcast(kind) == {<<node, kind>> : node \in nodes}

\* Transactions submitted to the node: A pays B with a good or a forged
\* signature, B pays A.
TxInputs ==
    {Transaction("A", "B", a, g) : a \in 1..MaxAmount, g \in {"sigA", "bad"}}
        \cup {Transaction("B", "A", 1, "sigB")}

\* The transaction is appended and broadcast before the balance is checked.
add_transaction_checks_late(transaction, is_receiving) ==
    /\ lastOp' = "add_transaction"
    /\ open_transactions' = Append(open_transactions, transaction)
    /\ sent' = IF ~is_receiving THEN Broadcast("transaction") ELSE {}
    /\ IF get_balance_none(transaction.sender)
       THEN ret' = Raised("TypeError")
       ELSE IF verify_transaction(transaction)
       THEN ret' = Returned("int", last_block.index + 1)
       ELSE ret' = Raised("ValueError")
    /\ UNCHANGED <<chain, nodes, difficulty, public_key>>

add_transaction(transaction, is_receiving) ==
    /\ lastOp' = "add_transaction"
    /\ IF get_balance_none(transaction.sender)
       THEN /\ ret' = Raised("TypeError")
            /\ sent' = {}
            /\ UNCHANGED open_transactions
       ELSE IF verify_transaction(transaction)
       THEN /\ open_transactions' = Append(open_transactions, transaction)
            /\ sent' = IF ~is_receiving THEN Broadcast("transaction") ELSE {}
            /\ ret' = Returned("int", last_block.index + 1)
       ELSE /\ ret' = Raised("ValueError")
            /\ sent' = {}
            /\ UNCHANGED open_transactions
    /\ UNCHANGED <<chain, nodes, difficulty, public_key>>

AddTransaction ==
    /\ Len(open_transactions) < MaxPool
    /\ \E transaction \in TxInputs, is_receiving \in BOOLEAN :
           add_transaction(transaction, is_receiving)
    /\ UNCHANGED mining

\* The while loop of proof_of_work, from `proof` on.
RECURSIVE proof_search(_, _, _, _)
proof_search(proof, transactions, previous_hash, diff) ==
    IF valid_proof(proof, transactions, previous_hash, diff)
    THEN proof
    ELSE proof_search(proof + 1, transactions, previous_hash, diff)

\* The search starts at 1.
proof_of_work_from_one(diff) ==
    LET previous_hash == hash_block(last_block)
    IN  proof_search(1, open_transactions, previous_hash, diff)

proof_of_work(diff) ==
    LET previous_hash == hash_block(last_block)
    IN  proof_search(0, open_transactions, previous_hash, diff)

\* A call of proof_of_work from outside mine_block.
proof_of_work_call(diff) ==
    /\ lastOp' = "proof_of_work"
    /\ sent' = {}
    /\ ret' = Returned("int", proof_of_work(diff))
    /\ UNCHANGED <<chain, open_transactions, nodes, difficulty, public_key>>

ProofOfWork ==
    /\ \E diff \in Difficulties : proof_of_work_call(diff)
    /\ UNCHANGED mining

\* mine_block gives up: `return None`, before anything is written.
mine_block_abort ==
    /\ ret' = None
    /\ sent' = {}
    /\ UNCHANGED <<chain, open_transactions>>

\* The pool is not reset after the block is appended.
mine_block_commit_keeps_pool(block) ==
    /\ chain' = Append(chain, block)
    /\ UNCHANGED open_transactions
    /\ sent' = Broadcast("block")
    /\ ret' = Returned("block", block)

\* The block is appended, the pool reset and the block broadcast.
mine_block_commit(block) ==
    /\ chain' = Append(chain, block)
    /\ open_transactions' = <<>>
    /\ sent' = Broadcast("block")
    /\ ret' = Returned("block", block)

\* The signature check of mine_block, run on the live pool after the reward
\* was appended to it.
mine_block_on_live_pool(difficulty_arg, timestamp) ==
    /\ lastOp' = "mine_block"
    /\ IF public_key = ""
       THEN mine_block_abort
       ELSE LET reward_transaction ==
                    Transaction("0", public_key, MINING_REWARD, "")
            IN  IF \E i \in 1..Len(open_transactions) :
                       ~Wallet_verify_transaction(open_transactions[i])
                THEN /\ ret' = None
                     /\ sent' = {}
                     /\ open_transactions' =
                            Append(open_transactions, reward_transaction)
                     /\ UNCHANGED chain
                ELSE mine_block_commit(
                         Block(next_index, timestamp,
                               Append(open_transactions, reward_transaction),
                               proof_of_work(IF difficulty_arg # NoDifficulty
                                             THEN difficulty_arg
                                             ELSE difficulty),
                               hash_block(last_block)))
    /\ UNCHANGED <<nodes, difficulty, public_key>>

mine_block(difficulty_arg, timestamp) ==
    /\ lastOp' = "mine_block"
    /\ IF public_key = ""
       THEN mine_block_abort
       ELSE LET diff == IF difficulty_arg # NoDifficulty
                        THEN difficulty_arg ELSE difficulty
                previous_hash == hash_block(last_block)
                proof == proof_of_work(diff)
                reward_transaction ==
                    Transaction("0", public_key, MINING_REWARD, "")
                copied_open_transactions == open_transactions
                block == Block(next_index, timestamp,
                               Append(copied_open_transactions,
                                      reward_transaction),
                               proof, previous_hash)
            IN  IF \E i \in 1..Len(copied_open_transactions) :
                       ~Wallet_verify_transaction(copied_open_transactions[i])
                THEN mine_block_abort
                ELSE mine_block_commit(block)
    /\ UNCHANGED <<nodes, difficulty, public_key>>

MineBlock ==
    /\ Len(chain) < MaxChain
    /\ \E difficulty_arg \in Difficulties \cup {NoDifficulty},
          timestamp \in {1} :
           mine_block(difficulty_arg, timestamp)
    /\ UNCHANGED mining

\* list.remove(x): drops the first element equal to x; ValueError (caught by
\* the caller) when there is none.
RECURSIVE list_remove(_, _)
list_remove(list, x) ==
    IF Len(list) = 0 THEN list
    ELSE IF list[1] = x THEN Tail(list)
    ELSE <<list[1]>> \o list_remove(Tail(list), x)

same_transaction(opentx, itx) ==
    /\ opentx.sender = itx.sender
    /\ opentx.recipient = itx.recipient
    /\ opentx.amount = itx.amount
    /\ opentx.signature = itx.signature

\* The inner loop of add_block: for opentx in stored_transactions[k..].
RECURSIVE remove_matching(_, _, _, _)
remove_matching(pool, stored_transactions, k, itx) ==
    IF k > Len(stored_transactions) THEN pool
    ELSE remove_matching(
             IF same_transaction(stored_transactions[k], itx)
             THEN list_remove(pool, stored_transactions[k])
             ELSE pool,
             stored_transactions, k + 1, itx)

\* The outer loop of add_block: for itx in block.transactions[j..].
RECURSIVE reconcile_pool(_, _, _, _)
reconcile_pool(pool, stored_transactions, transactions, j) ==
    IF j > Len(transactions) THEN pool
    ELSE reconcile_pool(
             remove_matching(pool, stored_transactions, 1, transactions[j]),
             stored_transactions, transactions, j + 1)

InvalidProof == <<FALSE, "Proof is not valid">>
PreviousHashMismatch ==
    <<FALSE,
      "Hash of last block does not equal previous hash in the current block">>
Success == <<TRUE, "success">>

\* The previous_hash of the block is not compared with the tip.
add_block_checks_proof_only(block) ==
    IF ~valid_proof(block.proof, AllButLast(block.transactions),
                    block.previous_hash, FIXED_DIFFICULTY)
    THEN InvalidProof
    ELSE Success

\* The two checks of add_block, in the order of the code.
add_block_checks(block) ==
    IF ~valid_proof(block.proof, AllButLast(block.transactions),
                    block.previous_hash, FIXED_DIFFICULTY)
    THEN InvalidProof
    ELSE IF ~(hash_block(last_block) = block.previous_hash)
    THEN PreviousHashMismatch
    ELSE Success

\* The block is appended before it is checked.
add_block_reject_late(block, result) ==
    /\ ret' = Returned("tuple", result)
    /\ chain' = Append(chain, block)
    /\ UNCHANGED open_transactions

\* `return False, reason`
add_block_reject(block, result) ==
    /\ ret' = Returned("tuple", result)
    /\ UNCHANGED <<chain, open_transactions>>

add_block(block) ==
    /\ lastOp' = "add_block"
    /\ sent' = {}
    /\ LET result == add_block_checks(block)
       IN  IF result # Success
           THEN add_block_reject(block, result)
           ELSE /\ chain' = Append(chain, block)
                /\ open_transactions' =
                       reconcile_pool(open_transactions, open_transactions,
                                      block.transactions, 1)
                /\ ret' = Returned("tuple", Success)
    /\ UNCHANGED <<nodes, difficulty, public_key>>

\* The reward of a block mined by the peer B.
peer_reward == Transaction("0", "B", MINING_REWARD, "")

\* Blocks a peer may submit on top of the current tip.  They hold the pool,
\* or its first transaction, and the peer's reward, and are well formed, or
\* have a weak proof, a wrong previous_hash, or both; one more has no
\* transaction at all, not even a reward, and another the index 0.
BlockInputs ==
    LET bodies == {open_transactions,
                   IF Len(open_transactions) = 0 THEN <<>>
                   ELSE <<open_transactions[1]>>}
        tip == hash_block(last_block)
        other == hash_string(tip + 1)
        mined(txs, h, d) == proof_search(0, AllButLast(txs), h, d)
        well_formed(txs) ==
            Block(next_index, 1, txs, mined(txs, tip, FIXED_DIFFICULTY), tip)
    IN  UNION {LET block == well_formed(Append(body, peer_reward))
               IN  {block,
                    [block EXCEPT !.proof = mined(block.transactions, tip, 1)],
                    [block EXCEPT
                        !.previous_hash = other,
                        !.proof = mined(block.transactions, other,
                                        FIXED_DIFFICULTY)],
                    [block EXCEPT !.previous_hash = other]} :
               body \in bodies}
            \cup {well_formed(<<>>),
                  [well_formed(<<peer_reward>>) EXCEPT !.index = 0]}

AddBlock ==
    /\ Len(chain) < MaxChain
    /\ \E block \in BlockInputs : add_block(block)
    /\ UNCHANGED mining

\* urlparse(address), as far as register_node reads it.
Addresses ==
    {[scheme |-> "http", netloc |-> "n1", path |-> ""],
     [scheme |-> "http", netloc |-> "n2", path |-> ""],
     [scheme |-> "", netloc |-> "", path |-> "n1"]}

register_node(parsed_url) ==
    /\ lastOp' = "register_node"
    /\ sent' = {}
    /\ IF parsed_url.scheme = ""
       THEN /\ ret' = Raised("ValueError")
            /\ UNCHANGED nodes
       ELSE /\ nodes' = nodes \cup {parsed_url.scheme \o "://"
                                       \o parsed_url.netloc \o parsed_url.path}
            /\ ret' = None
    /\ UNCHANGED <<chain, open_transactions, difficulty, public_key>>

RegisterNode ==
    /\ \E parsed_url \in Addresses : register_node(parsed_url)
    /\ UNCHANGED mining

\* What requests.get(f"{node}/chain") yields: a response that is ok, with
\* the length and the chain the peer reports, a response that is not ok, or
\* a ConnectionError.
OkResponse(length, peer_chain) ==
    [kind |-> "ok", length |-> length, chain |-> peer_chain]
NotOkResponse == [kind |-> "not_ok", length |-> 0, chain |-> <<>>]
ConnectionError == [kind |-> "error", length |-> 0, chain |-> <<>>]

\* The loop of resolve_conflicts over the responses of the peers, taken in the
\* order the set of nodes is iterated.  new_chain is None while has_new is
\* FALSE.
RECURSIVE scan_peers(_, _, _, _, _)
scan_peers(responses, k, max_length, has_new, new_chain) ==
    IF k > Len(responses)
    THEN [raised |-> FALSE, has_new |-> has_new, new_chain |-> new_chain]
    ELSE LET response == responses[k]
         IN  IF response.kind = "error"
             THEN [raised |-> TRUE, has_new |-> has_new,
                   new_chain |-> new_chain]
             ELSE IF response.kind = "ok"
                     /\ response.length > max_length
                     /\ verify_chain(response.chain)
             THEN scan_peers(responses, k + 1, response.length, TRUE,
                             response.chain)
             ELSE scan_peers(responses, k + 1, max_length, has_new,
                             new_chain)

\* The pool is reset when the chain is replaced.
resolve_conflicts_resets_pool(responses) ==
    LET scan == scan_peers(responses, 1, Len(chain), FALSE, <<>>)
    IN  /\ lastOp' = "resolve_conflicts"
        /\ sent' = {}
        /\ IF scan.raised
           THEN /\ ret' = Raised("ConnectionError")
                /\ UNCHANGED <<chain, open_transactions>>
           ELSE IF scan.has_new /\ Len(scan.new_chain) > 0
           THEN /\ chain' = scan.new_chain
                /\ open_transactions' = <<>>
                /\ ret' = Returned("bool", TRUE)
           ELSE /\ ret' = Returned("bool", FALSE)
                /\ UNCHANGED <<chain, open_transactions>>
        /\ UNCHANGED <<nodes, difficulty, public_key>>

resolve_conflicts(responses) ==
    LET scan == scan_peers(responses, 1, Len(chain), FALSE, <<>>)
    IN  /\ lastOp' = "resolve_conflicts"
        /\ sent' = {}
        /\ IF scan.raised
           THEN /\ ret' = Raised("ConnectionError")
                /\ UNCHANGED chain
           ELSE IF scan.has_new /\ Len(scan.new_chain) > 0
           THEN /\ chain' = scan.new_chain
                /\ ret' = Returned("bool", TRUE)
           ELSE /\ ret' = Returned("bool", FALSE)
                /\ UNCHANGED chain
        /\ UNCHANGED <<open_transactions, nodes, difficulty, public_key>>

\* Chains held by peers.
fork_genesis == Block(0, 0, <<>>, 7, EmptyHash)

mined_on(c, body, diff) ==
    LET previous_hash == hash_block(c[Len(c)])
    IN  Append(c, Block(Len(c), 1, Append(body, peer_reward),
                        proof_search(0, body, previous_hash, diff),
                        previous_hash))

peer_chain_2 == mined_on(<<genesis_block>>, <<>>, FIXED_DIFFICULTY)
peer_fork_2 == mined_on(<<fork_genesis>>, <<>>, FIXED_DIFFICULTY)
peer_chain_3 ==
    mined_on(peer_chain_2, <<Transaction("B", "A", 1, "sigB")>>,
             FIXED_DIFFICULTY)
peer_broken_3 ==
    [peer_chain_3 EXCEPT
        ![3].previous_hash = hash_string(peer_chain_3[3].previous_hash + 1)]

\* A length above that of every chain of the model.
InflatedLength == MaxChain + 1

Responses ==
    {ConnectionError, NotOkResponse,
     OkResponse(1, <<fork_genesis>>),
     OkResponse(InflatedLength, <<fork_genesis>>),
     OkResponse(InflatedLength, <<>>),
     OkResponse(2, peer_chain_2),
     OkResponse(2, peer_fork_2),
     OkResponse(3, peer_chain_3),
     OkResponse(3, peer_broken_3)}

\* One response for each of n peers, in the order they are visited.
RECURSIVE ResponsesOf(_)
ResponsesOf(n) ==
    IF n = 0 THEN {<<>>}
    ELSE {Append(responses, response) :
             responses \in ResponsesOf(n - 1), response \in Responses}

ResolveConflicts ==
    /\ \E responses \in ResponsesOf(Cardinality(nodes)) :
           resolve_conflicts(responses)
    /\ UNCHANGED mining

\* The sender get_balance is asked about: none, the node's own key holder or
\* another participant.
Senders == {"", "A", "B"}

\* A call of get_balance from outside (the node's balance route).
get_balance_call(sender) ==
    /\ lastOp' = "get_balance"
    /\ sent' = {}
    /\ ret' = IF get_balance_none(sender) THEN None
              ELSE Returned("float", get_balance(sender))
    /\ UNCHANGED <<chain, open_transactions, nodes, difficulty, public_key>>

GetBalance ==
    /\ \E sender \in Senders : get_balance_call(sender)
    /\ UNCHANGED mining

Next ==
    \/ AddTransaction
    \/ MineBlock
    \/ AddBlock
    \/ RegisterNode
    \/ ResolveConflicts
    \/ GetBalance
    \/ ProofOfWork

Spec == Init /\ [][Next]_vars

(* ---------------- mine_block interleaved with other calls -------------- *)

\* The first part of a mine_block call, up to the return of proof_of_work:
\* the tip is read and hashed and the proof is searched over the pool.  A node
\* without a key returns None at once.
mine_block_search(difficulty_arg) ==
    IF public_key = ""
    THEN /\ lastOp' = "mine_block"
         /\ mine_block_abort
         /\ UNCHANGED <<nodes, difficulty, public_key, mining>>
    ELSE LET diff == IF difficulty_arg # NoDifficulty
                     THEN difficulty_arg ELSE difficulty
         IN  /\ mining' = [active |-> TRUE,
                           previous_hash |-> hash_block(last_block),
                           proof |-> proof_of_work(diff)]
             /\ UNCHANGED <<chain, open_transactions, nodes, difficulty,
                            public_key, lastOp, ret, sent>>

\* The rest of the call: the pool is copied and its signatures checked, the
\* block is built with the proof and the previous_hash found before, appended
\* and broadcast, and the pool is reset.
mine_block_finish(timestamp) ==
    /\ lastOp' = "mine_block"
    /\ mining' = NotMining
    /\ LET reward_transaction ==
               Transaction("0", public_key, MINING_REWARD, "")
           copied_open_transactions == open_transactions
           block == Block(next_index, timestamp,
                          Append(copied_open_transactions, reward_transaction),
                          mining.proof, mining.previous_hash)
       IN  IF \E i \in 1..Len(copied_open_transactions) :
                  ~Wallet_verify_transaction(copied_open_transactions[i])
           THEN mine_block_abort
           ELSE mine_block_commit(block)
    /\ UNCHANGED <<nodes, difficulty, public_key>>

MineBlockSearch ==
    /\ ~mining.active
    /\ Len(chain) < MaxChain
    /\ \E difficulty_arg \in Difficulties \cup {NoDifficulty} :
           mine_block_search(difficulty_arg)

MineBlockFinish ==
    /\ mining.active
    /\ \E timestamp \in {1} : mine_block_finish(timestamp)

\* The calls of the node, with other calls served while a mine_block call is
\* between its proof search and its append.
NextInterleaved ==
    \/ AddTransaction
    \/ AddBlock
    \/ MineBlockSearch
    \/ MineBlockFinish
    \/ GetBalance

SpecInterleaved == Init /\ [][NextInterleaved]_vars

(* -------------------------------- claims ------------------------------- *)

mined_a_block == lastOp = "mine_block" /\ ret # None
accepted_a_block == lastOp = "add_block" /\ ret.tuple = Success

\* C1: right after every mine_block that returns a block (whatever the
\* difficulty) and every add_block that returns success, verify_chain holds
\* on the chain of the node.
C1_HashLinkAfterMutation ==
    (mined_a_block \/ accepted_a_block) => verify_chain(chain)

\* C2: the chain is never shorter after resolve_conflicts than before it.
C2_ResolveNeverShrinks ==
    [][lastOp' = "resolve_conflicts" => Len(chain') >= Len(chain)]_vars

\* C3: in every reachable state the balance get_balance computes for a
\* participant is not negative.
C3_NoNegativeBalance == \A p \in Participants : get_balance(p) >= 0

\* C4: when mine_block returns a block, the pool is empty afterwards and the
\* chain is the chain before the call with that block appended.
C4_PoolClearsOnMine ==
    [][(lastOp' = "mine_block" /\ ret' # None)
          => /\ open_transactions' = <<>>
             /\ chain' = Append(chain, ret'.block)]_vars

\* C4 witness: a block was mined that holds pending transactions and the
\* reward.
C4_Witness ==
    /\ mined_a_block
    /\ Len(ret.block.transactions) > 1
    /\ open_transactions = <<>>

has_forged_signature(pool) ==
    \E i \in 1..Len(pool) : ~Wallet_verify_transaction(pool[i])

\* C5: mine_block produces no block when the node has no public key or a
\* pending transaction fails the signature check, and whenever it produces no
\* block the pool and the chain are as before the call.
C5_MiningAtomicity ==
    [][lastOp' = "mine_block"
          => /\ (public_key = "" \/ has_forged_signature(open_transactions))
                    => ret' = None
             /\ ret' = None
                    => /\ open_transactions' = open_transactions
                       /\ chain' = chain]_vars

\* C5 witness: a node with a key gave up mining over a forged signature in
\* its pool.
C5_Witness ==
    /\ lastOp = "mine_block"
    /\ ret = None
    /\ public_key # ""
    /\ has_forged_signature(open_transactions)

\* C6: add_transaction of a transaction whose sender's balance is below the
\* amount raises, changes neither pool nor chain and broadcasts nothing; with
\* a sufficient balance it appends exactly the transaction at the end of the
\* pool.
C6_InsufficientBalanceRejected ==
    [][lastOp' = "add_transaction" =>
       \A transaction \in TxInputs, is_receiving \in BOOLEAN :
          add_transaction(transaction, is_receiving)
              => IF get_balance(transaction.sender) < transaction.amount
                 THEN /\ ret' = Raised("ValueError")
                      /\ open_transactions' = open_transactions
                      /\ chain' = chain
                      /\ sent' = {}
                 ELSE /\ ret' # Raised("ValueError")
                      /\ open_transactions' =
                             Append(open_transactions, transaction)
                      /\ chain' = chain]_vars

\* C6 witness: a node with a peer rejected a transaction.
C6_Witness ==
    /\ lastOp = "add_transaction"
    /\ ret = Raised("ValueError")
    /\ nodes # {}

\* C7: when add_block returns a failure, chain and pool are as before the
\* call.
C7_AddBlockFailureFrame ==
    [][(lastOp' = "add_block" /\ ret'.tuple[1] = FALSE)
          => /\ chain' = chain
             /\ open_transactions' = open_transactions]_vars

\* C7 witness: a block was refused while transactions were pending.
C7_Witness ==
    /\ lastOp = "add_block"
    /\ ret.tuple[1] = FALSE
    /\ open_transactions # <<>>

\* C8 as claimed: for every submitted block whose previous_hash is not the
\* hash of the last block, add_block returns the previous-hash mismatch and
\* the chain is unchanged.
C8_MismatchTagAlways ==
    [][lastOp' = "add_block" => \A block \in BlockInputs :
          (add_block(block) /\ block.previous_hash # hash_block(last_block))
              => /\ ret'.tuple = PreviousHashMismatch
                 /\ chain' = chain]_vars

\* C8 amended: for every submitted block whose previous_hash is not the hash
\* of the last block, add_block returns a failure and the chain is unchanged;
\* the failure is the previous-hash mismatch when the proof of the block is
\* valid, and the invalid proof otherwise.
C8_MismatchTagWhenProofValid ==
    [][lastOp' = "add_block" => \A block \in BlockInputs :
          (add_block(block) /\ block.previous_hash # hash_block(last_block))
              => /\ chain' = chain
                 /\ ret'.tuple =
                        IF valid_proof(block.proof,
                                       AllButLast(block.transactions),
                                       block.previous_hash, FIXED_DIFFICULTY)
                        THEN PreviousHashMismatch
                        ELSE InvalidProof]_vars

\* C8 witness: a block was refused for its previous_hash.
C8_Witness ==
    /\ lastOp = "add_block"
    /\ ret.tuple = PreviousHashMismatch

\* C9: the chain is never empty and its first block is the genesis block.
C9_GenesisFirst ==
    /\ Len(chain) >= 1
    /\ chain[1] = genesis_block

\* C10: resolve_conflicts always returns (a boolean); it never raises.
C10_ResolveNeverRaises ==
    lastOp = "resolve_conflicts" => ret \in {Returned("bool", b) : b \in BOOLEAN}

\* The reconciliation the specification describes: for each transaction of
\* the block, in order, the first equal entry of the pool is removed, if any.
RECURSIVE remove_first_each(_, _)
remove_first_each(pool, transactions) ==
    IF Len(transactions) = 0 THEN pool
    ELSE remove_first_each(list_remove(pool, transactions[1]),
                           Tail(transactions))

\* C11: after a successful add_block(block) the pool is the pool before the
\* call from which, for each transaction of the block in order, the first equal
\* entry has been removed: one entry per matching block transaction, the
\* others kept in their order.
C11_OneRemovedPerMatch ==
    [][lastOp' = "add_block" => \A block \in BlockInputs :
          (add_block(block) /\ ret'.tuple = Success)
              => open_transactions' =
                     remove_first_each(open_transactions,
                                       block.transactions)]_vars

\* A candidate of a resolution pass that qualifies: it was fetched, the length
\* it reports is above that of the local chain, and it passes verify_chain.
qualifies(response) ==
    /\ response.kind = "ok"
    /\ response.length > Len(chain)
    /\ verify_chain(response.chain)

\* The qualifying candidate with the greatest reported length, the first one
\* met among those of equal length.
best_candidate(responses) ==
    CHOOSE k \in 1..Len(responses) :
        /\ qualifies(responses[k])
        /\ \A j \in 1..Len(responses) :
               qualifies(responses[j])
                   => \/ responses[j].length < responses[k].length
                      \/ (responses[j].length = responses[k].length /\ j >= k)

all_fetched(responses) ==
    \A k \in 1..Len(responses) : responses[k].kind # "error"

\* C12: when every peer is fetched, resolve_conflicts returns true and
\* replaces the chain iff some candidate qualifies; the chain installed is the
\* qualifying candidate of greatest reported length (the first among equals)
\* and passes verify_chain; otherwise the chain is unchanged and the result
\* is false.
C12_ResolverSelection ==
    [][lastOp' = "resolve_conflicts" =>
       \A responses \in ResponsesOf(Cardinality(nodes)) :
          (resolve_conflicts(responses) /\ all_fetched(responses))
              => IF \E k \in 1..Len(responses) : qualifies(responses[k])
                 THEN /\ ret' = Returned("bool", TRUE)
                      /\ chain' = responses[best_candidate(responses)].chain
                      /\ verify_chain(chain')
                 ELSE /\ ret' = Returned("bool", FALSE)
                      /\ chain' = chain]_vars

\* C13: resolve_conflicts changes neither the pool nor the set of peers,
\* whether or not it replaces the chain.
C13_ResolverFrame ==
    [][lastOp' = "resolve_conflicts"
          => /\ open_transactions' = open_transactions
             /\ nodes' = nodes]_vars

\* C13 witness: resolve_conflicts replaced the chain of a node that has
\* pending transactions.
C13_Witness ==
    /\ lastOp = "resolve_conflicts"
    /\ ret = Returned("bool", TRUE)
    /\ open_transactions # <<>>
    /\ nodes # {}

\* All transactions of the blocks of c, in the order of the chain.
RECURSIVE confirmed_transactions(_)
confirmed_transactions(c) ==
    IF Len(c) = 0 THEN <<>>
    ELSE c[1].transactions \o confirmed_transactions(Tail(c))

\* Sum of the amounts of the transactions of txs whose `field` is the
\* participant.
RECURSIVE amount_where(_, _, _)
amount_where(txs, field, participant) ==
    IF Len(txs) = 0 THEN 0
    ELSE (IF txs[1][field] = participant THEN txs[1].amount ELSE 0)
             + amount_where(Tail(txs), field, participant)

\* The balance as the specification states it: confirmed income minus
\* confirmed and pending spending.
balance_formula(participant) ==
    amount_where(confirmed_transactions(chain), "recipient", participant)
        - amount_where(confirmed_transactions(chain) \o open_transactions,
                       "sender", participant)

\* C14: get_balance(participant) is the sum of the amounts the participant
\* receives in blocks of the chain minus the sum of the amounts the
\* participant sends in blocks of the chain and in the pool (pending income
\* counts for nothing), and get_balance changes neither chain nor pool.
C14_BalanceFormula ==
    [][lastOp' = "get_balance" =>
       /\ chain' = chain
       /\ open_transactions' = open_transactions
       /\ \A sender \in Senders :
             (get_balance_call(sender) /\ ~get_balance_none(sender))
                 => ret' = Returned("float",
                                    balance_formula(IF sender = ""
                                                    THEN public_key
                                                    ELSE sender))]_vars

\* C14 witness: get_balance answered for a participant who has confirmed
\* income, pending income and pending spending.
C14_Witness ==
    /\ lastOp = "get_balance"
    /\ \E p \in Participants :
          /\ ret = Returned("float", balance_formula(p))
          /\ \A q \in Participants \ {p} :
                 balance_formula(q) # balance_formula(p)
          /\ amount_where(confirmed_transactions(chain), "recipient", p) > 0
          /\ amount_where(open_transactions, "recipient", p) > 0
          /\ amount_where(open_transactions, "sender", p) > 0

\* chain[i].previous_hash == hash(chain[i-1]) for every i > 0
hash_linked(c) ==
    \A i \in 2..Len(c) : c[i].previous_hash = hash_block(c[i - 1])

\* C15: when mine_block comes to its append after add_block accepted a block
\* on the tip it had read, it appends nothing; and in every interleaving each
\* block's previous_hash is the hash of its predecessor.
C15_MiningAbandonedOnPeerBlock ==
    [][/\ (/\ lastOp' = "mine_block"
           /\ mining.active
           /\ mining.previous_hash # hash_block(last_block))
              => chain' = chain
       /\ hash_linked(chain')]_vars

C17_PoolChainDisjoint ==
    \A i \in 1..Len(open_transactions) :
        \A j \in 1..Len(chain) :
            \A k \in 1..Len(chain[j].transactions) :
                ~same_transaction(open_transactions[i],
                                  chain[j].transactions[k])

\* C18: in every reachable state every block after the first has a non-empty
\* list of transactions that ends with a mining reward.
C18_TrailingReward ==
    \A i \in 2..Len(chain) :
        LET transactions == chain[i].transactions
        IN  /\ Len(transactions) > 0
            /\ transactions[Len(transactions)].sender = "0"
            /\ transactions[Len(transactions)].amount = MINING_REWARD

\* C19: in every reachable state the index of each block is its position in
\* the chain, counted from 0.
C19_IndexIsPosition ==
    \A i \in 1..Len(chain) : chain[i].index = i - 1

\* add_transaction returned the index it promises for the transaction it
\* has just appended at the end of the pool.
admitted_a_transaction == lastOp = "add_transaction" /\ DOMAIN ret = {"int"}

\* C20: when a successful add_transaction(tx) is followed by a successful
\* mine_block with no change of the chain in between, the block appended
\* holds tx and its index is the integer add_transaction returned.
C20_AdmissionReturnsBlockIndex ==
    [][(admitted_a_transaction /\ lastOp' = "mine_block" /\ ret' # None)
          => /\ ret'.block.index = ret.int
             /\ chain' = Append(chain, ret'.block)
             /\ \E k \in 1..Len(ret'.block.transactions) :
                    ret'.block.transactions[k]
                        = open_transactions[Len(open_transactions)]]_vars

====
